---- MODULE Spec2Model ----
(***************************************************************************)
(* Model of src/src/data_loader.py: the five loaders load_prices,          *)
(* load_storage, load_efficiency, load_plant_capacity and load_demand.     *)
(* Each loader is a stateless call; a state of the model is one call       *)
(* (the file's content and the arguments) together with its outcome.       *)
(*                                                                         *)
(* Text (column names, cells) is a tuple of one-character strings, so that *)
(* strip(), lower() and numeric coercion are computed, not assumed.        *)
(* A timestamp is the number of hours since 2024-01-01T00:00.              *)
(* An optional value is <<>> (None / NaN) or <<v>>; a number that need not *)
(* be an integer (a mean, a scaled sum) is a reduced fraction <<n, d>>.    *)
(***************************************************************************)
EXTENDS Integers, Sequences, FiniteSets, TLC

VARIABLES loader, header, rows, start, end, resample_method, zone,
          supply_factor, result

vars == <<loader, header, rows, start, end, resample_method, zone,
          supply_factor, result>>

----------------------------------------------------------------------------
(* Bounds of the model *)

MaxRows == 4

----------------------------------------------------------------------------
(* Text: str.strip(), str.lower() *)

UpperChars == <<"A","B","C","D","E","F","G","H","I","J","K","L","M",
                "N","O","P","Q","R","S","T","U","V","W","X","Y","Z">>

LowerChars == <<"a","b","c","d","e","f","g","h","i","j","k","l","m",
                "n","o","p","q","r","s","t","u","v","w","x","y","z">>

LowerChar(c) ==
    IF \E i \in DOMAIN UpperChars : UpperChars[i] = c
    THEN LowerChars[CHOOSE i \in DOMAIN UpperChars : UpperChars[i] = c]
    ELSE c

Lower(s) == [i \in DOMAIN s |-> LowerChar(s[i])]

IsSpace(c) == c = " "

RECURSIVE LStrip(_)
LStrip(s) ==
    IF s # <<>> /\ IsSpace(Head(s)) THEN LStrip(Tail(s)) ELSE s

RECURSIVE RStrip(_)
RStrip(s) ==
    IF s # <<>> /\ IsSpace(s[Len(s)])
    THEN RStrip(SubSeq(s, 1, Len(s) - 1))
    ELSE s

Strip(s) == RStrip(LStrip(s))

(* df.columns.str.strip().str.lower() *)
NormalizeName(s) == Lower(Strip(s))

(* the key without lower-casing *)
ZoneKey_CaseSensitive(s) == Strip(s)

(* col.lower().strip() / zone.lower().strip() *)
ZoneKey(s) == Strip(Lower(s))

----------------------------------------------------------------------------
(* Numbers: pd.to_numeric(errors="coerce"), fractions *)

Digits == <<"0","1","2","3","4","5","6","7","8","9">>

IsDigit(c) == \E i \in DOMAIN Digits : Digits[i] = c

DigitValue(c) == (CHOOSE i \in DOMAIN Digits : Digits[i] = c) - 1

RECURSIVE DecimalValue(_)
DecimalValue(s) ==
    IF s = <<>> THEN 0
    ELSE 10 * DecimalValue(SubSeq(s, 1, Len(s) - 1)) + DigitValue(s[Len(s)])

NaN == <<>>

(* a cell that is not a number becomes NaN, not an error *)
ToNumeric(cell) ==
    IF cell # <<>> /\ \A i \in DOMAIN cell : IsDigit(cell[i])
    THEN <<DecimalValue(cell)>>
    ELSE NaN

RECURSIVE GCD(_, _)
GCD(a, b) == IF b = 0 THEN a ELSE GCD(b, a % b)

Frac(n, d) == LET g == GCD(n, d) IN IF g = 0 THEN <<0, 1>> ELSE <<n \div g, d \div g>>

----------------------------------------------------------------------------
(* Calendar of 2024: pd.Timestamp, pd.offsets.MonthEnd, pd.offsets.Hour *)

MonthLengths == <<31, 29, 31, 30, 31, 30, 31, 31, 30, 31, 30, 31>>

RECURSIVE MonthStartDay(_)
MonthStartDay(m) == IF m = 1 THEN 0 ELSE MonthStartDay(m - 1) + MonthLengths[m - 1]

MonthEndDay(m) == MonthStartDay(m) + MonthLengths[m] - 1

DayOf(t) == t \div 24

HourOf(t) == t % 24

MonthOfDay(d) == CHOOSE m \in DOMAIN MonthLengths : MonthStartDay(m) <= d /\ d <= MonthEndDay(m)

MonthOf(t) == MonthOfDay(DayOf(t))

(* the timestamp of month m, day d (1-based), hour h *)
At(m, d, h) == (MonthStartDay(m) + d - 1) * 24 + h

(* ts + pd.offsets.MonthEnd(1): a day before the month's last day rolls to
   that last day; the last day itself rolls to the NEXT month's last day.
   The time of day is kept. *)
AddMonthEnd(t) ==
    LET m == MonthOf(t)
    IN  IF DayOf(t) < MonthEndDay(m)
        THEN MonthEndDay(m) * 24 + HourOf(t)
        ELSE MonthEndDay(m + 1) * 24 + HourOf(t)

(* pd.to_datetime(end) + pd.offsets.MonthEnd(1) + pd.offsets.Hour(23) *)
ExtendEnd(t) == AddMonthEnd(t) + 23

----------------------------------------------------------------------------
(* The file as read by pd.read_csv: header is the tuple of column names as
   written (the first one is the date column), rows[i] is
   [ts |-> timestamp, cells |-> text of the other columns, in header order] *)

NumColumns(hdr) == Len(hdr)

ValueColumns(hdr) == Tail(hdr)

Index(rs) == [i \in DOMAIN rs |-> rs[i].ts]

SetMin(S) == CHOOSE x \in S : \A y \in S : x <= y

SetMax(S) == CHOOSE x \in S : \A y \in S : y <= x

Range(s) == {s[i] : i \in DOMAIN s}

IndexMin(rs) == SetMin(Range(Index(rs)))

IndexMax(rs) == SetMax(Range(Index(rs)))

----------------------------------------------------------------------------
(* df.loc[start_ts:end_ts] on a DatetimeIndex with Timestamp bounds.
   A bound that is a member of the index is located by position; a bound
   that is not is located by binary search, which needs a monotonic index.
   A position is 0-based and wrapped as <<p>>; <<>> stands for KeyError. *)

IsMonotonicIncreasing(idx) == \A i \in 1..(Len(idx) - 1) : idx[i] <= idx[i + 1]

IsMonotonicDecreasing(idx) == \A i \in 1..(Len(idx) - 1) : idx[i] >= idx[i + 1]

Positions(idx, label) == {i \in DOMAIN idx : idx[i] = label}

IsContiguous(P) == \A i \in SetMin(P)..SetMax(P) : i \in P

SliceBound(idx, label, side) ==
    LET P == Positions(idx, label)
    IN  IF P # {}
        THEN IF IsContiguous(P)
             THEN IF side = "left" THEN <<SetMin(P) - 1>> ELSE <<SetMax(P)>>
             ELSE <<>>
        ELSE IF IsMonotonicIncreasing(idx)
             THEN <<Cardinality({i \in DOMAIN idx : idx[i] < label})>>
             ELSE IF IsMonotonicDecreasing(idx)
                  THEN <<Cardinality({i \in DOMAIN idx : idx[i] > label})>>
                  ELSE <<>>

(* the slice left out: every row is kept *)
LocSlice_KeepAll(rs, lo, hi) == [ok |-> TRUE, rows |-> rs]

(* rs.loc[lo:hi]: [ok |-> FALSE] for KeyError, else the selected rows *)
LocSlice(rs, lo, hi) ==
    LET l == SliceBound(Index(rs), lo, "left")
        r == SliceBound(Index(rs), hi, "right")
    IN  IF l = <<>> \/ r = <<>>
        THEN [ok |-> FALSE, rows |-> <<>>]
        ELSE [ok |-> TRUE, rows |-> SubSeq(rs, l[1] + 1, r[1])]

----------------------------------------------------------------------------
(* df.resample(rule): the label of a timestamp's bucket and the next label.
   "ME": last day of the month, "MS": first day of the month, "W": the
   Sunday ending the week (2024-01-07 is a Sunday), "D": the day; all at
   00:00. The buckets run from the first row's to the last row's. *)

Rules == {"ME", "MS", "W", "D"}

WeekEndDay(d) == d + (6 - (d % 7))

LabelOf(rule, t) ==
    CASE rule = "ME" -> MonthEndDay(MonthOf(t)) * 24
      [] rule = "MS" -> MonthStartDay(MonthOf(t)) * 24
      [] rule = "W"  -> WeekEndDay(DayOf(t)) * 24
      [] rule = "D"  -> DayOf(t) * 24

NextLabel(rule, l) ==
    CASE rule = "ME" -> MonthEndDay(MonthOf(l) + 1) * 24
      [] rule = "MS" -> MonthStartDay(MonthOf(l) + 1) * 24
      [] rule = "W"  -> l + 7 * 24
      [] rule = "D"  -> l + 24

RECURSIVE LabelsFrom(_, _, _)
LabelsFrom(rule, l, last) ==
    IF l > last THEN <<>> ELSE <<l>> \o LabelsFrom(rule, NextLabel(rule, l), last)

(* one output row per input row, in input order *)
BucketLabels_PerRow(rule, rs) == [i \in DOMAIN rs |-> LabelOf(rule, rs[i].ts)]

BucketLabels(rule, rs) ==
    LabelsFrom(rule, LabelOf(rule, IndexMin(rs)), LabelOf(rule, IndexMax(rs)))

(* the values of column j of the rows of rs in bucket b that are numbers *)
RECURSIVE BucketValues(_, _, _, _)
BucketValues(rule, rs, b, j) ==
    IF rs = <<>> THEN <<>>
    ELSE LET r == Head(rs)
             rest == BucketValues(rule, Tail(rs), b, j)
         IN  IF LabelOf(rule, r.ts) = b /\ r.vals[j] # NaN
             THEN <<r.vals[j][1]>> \o rest
             ELSE rest

RECURSIVE SumSeq(_)
SumSeq(s) == IF s = <<>> THEN 0 ELSE Head(s) + SumSeq(Tail(s))

(* .mean(): NaN cells are skipped; a bucket without numbers gives NaN *)
Mean(xs) == IF xs = <<>> THEN NaN ELSE Frac(SumSeq(xs), Len(xs))

(* .sum(): NaN cells are skipped; a bucket without numbers gives 0 *)
Sum(xs) == SumSeq(xs)

(* value * supply_factor, the factor being the fraction <<n, d>> *)
Scale(x, f) == Frac(x * f[1], f[2])

----------------------------------------------------------------------------
(* Outcomes. Every failure of the source is a ValueError; the kind is the
   raise site: too few columns / missing columns / unknown zone is a
   FormatError, "`start` must be less than or equal to `end`." a RangeError,
   "No data in the selected date range." an EmptyResultError. A KeyError is
   the one pandas raises from df.loc. *)

Pending == [kind |-> "pending"]

Error(k) == [kind |-> k]

Table(cols, tbl) == [kind |-> "table", columns |-> cols, table |-> tbl]

None == <<>>

----------------------------------------------------------------------------
(* load_prices *)

coal == <<"c","o","a","l">>
gas == <<"g","a","s">>
oil == <<"o","i","l">>

(* oil forgotten among the required columns *)
required_WithoutOil == {coal, gas}

required == {coal, gas, oil}

(* df.apply(pd.to_numeric, errors="coerce") *)
CoerceAll(rs) ==
    [i \in DOMAIN rs |->
        [ts |-> rs[i].ts,
         vals |-> [j \in DOMAIN rs[i].cells |-> ToNumeric(rs[i].cells[j])]]]

StartTs(rs, st) == IF st # None THEN st[1] ELSE IndexMin(rs)

EndTs(rs, en) == IF en # None THEN ExtendEnd(en[1]) ELSE IndexMax(rs)

(* df.resample(resample_method).mean() *)
ResampleMean(rule, rs, ncols) ==
    LET labels == BucketLabels(rule, rs)
    IN  [k \in DOMAIN labels |->
            [ts |-> labels[k],
             vals |-> [j \in 1..ncols |-> Mean(BucketValues(rule, rs, labels[k], j))]]]

load_prices(hdr, rs, st, en, rule) ==
    IF NumColumns(hdr) < 2
    THEN Error("FormatError")
    ELSE LET columns == [j \in DOMAIN ValueColumns(hdr) |-> NormalizeName(ValueColumns(hdr)[j])]
             missing == required \ Range(columns)
         IN  IF missing # {}
             THEN Error("FormatError")
             ELSE LET df == CoerceAll(rs)
                      start_ts == StartTs(df, st)
                      end_ts == EndTs(df, en)
                  IN  IF start_ts > end_ts
                      THEN Error("RangeError")
                      ELSE LET sel == LocSlice(df, start_ts, end_ts)
                           IN  IF ~sel.ok
                               THEN Error("KeyError")
                               ELSE IF sel.rows = <<>>
                                    THEN Error("EmptyResultError")
                                    ELSE Table(columns, ResampleMean(rule, sel.rows, Len(columns)))

----------------------------------------------------------------------------
(* load_demand *)

(* {col.lower().strip(): col for col in df.columns}: a later column with the
   same key replaces an earlier one *)
RECURSIVE ColMap(_)
ColMap(cols) ==
    IF cols = <<>> THEN <<>>
    ELSE LET before == ColMap(SubSeq(cols, 1, Len(cols) - 1))
             col == cols[Len(cols)]
         IN  IF \E i \in DOMAIN before : before[i][1] = ZoneKey(col)
             THEN [i \in DOMAIN before |->
                      IF before[i][1] = ZoneKey(col) THEN <<ZoneKey(col), col>> ELSE before[i]]
             ELSE Append(before, <<ZoneKey(col), col>>)

HasKey(m, k) == \E i \in DOMAIN m : m[i][1] = k

Lookup(m, k) == m[CHOOSE i \in DOMAIN m : m[i][1] = k][2]

ColumnPosition(cols, name) == CHOOSE j \in DOMAIN cols : cols[j] = name

(* df[selected_col] = pd.to_numeric(df[selected_col], errors="coerce") *)
CoerceColumn(rs, j) ==
    [i \in DOMAIN rs |->
        [ts |-> rs[i].ts,
         vals |-> [k \in DOMAIN rs[i].cells |->
                      IF k = j THEN ToNumeric(rs[i].cells[k]) ELSE rs[i].cells[k]]]]

(* df[selected_col].resample(resample_method).sum() * supply_factor *)
ResampleSumScaled(rule, rs, j, factor) ==
    LET labels == BucketLabels(rule, rs)
    IN  [k \in DOMAIN labels |->
            [ts |-> labels[k],
             vals |-> <<Scale(Sum(BucketValues(rule, rs, labels[k], j)), factor)>>]]

load_demand(hdr, rs, st, en, rule, zn, factor) ==
    IF NumColumns(hdr) < 2
    THEN Error("FormatError")
    ELSE LET columns == ValueColumns(hdr)
             col_map == ColMap(columns)
             zone_key == ZoneKey(zn)
         IN  IF ~HasKey(col_map, zone_key)
             THEN Error("FormatError")
             ELSE LET selected_col == Lookup(col_map, zone_key)
                      j == ColumnPosition(columns, selected_col)
                      df == CoerceColumn(rs, j)
                      start_ts == StartTs(df, st)
                      end_ts == EndTs(df, en)
                  IN  IF start_ts > end_ts
                      THEN Error("RangeError")
                      ELSE LET sel == LocSlice(df, start_ts, end_ts)
                           IN  IF ~sel.ok
                               THEN Error("KeyError")
                               ELSE IF sel.rows = <<>>
                                    THEN Error("EmptyResultError")
                                    ELSE Table(<<selected_col>>,
                                               ResampleSumScaled(rule, sel.rows, j, factor))

----------------------------------------------------------------------------
(* load_storage, load_efficiency, load_plant_capacity: here the header has
   no date column and rows[i] is [cells |-> text of every column] *)

fuel == <<"f","u","e","l">>
capacity == <<"c","a","p","a","c","i","t","y">>
efficiency == <<"e","f","f","i","c","i","e","n","c","y">>

Column(hdr, rs, name) ==
    LET j == ColumnPosition(hdr, name) IN [i \in DOMAIN rs |-> rs[i].cells[j]]

(* a repeated key keeps its first value *)
RECURSIVE DictZip_FirstWins(_, _)
DictZip_FirstWins(ks, vs) ==
    IF ks = <<>> THEN <<>>
    ELSE LET d == DictZip_FirstWins(Tail(ks), Tail(vs))
         IN  [k \in DOMAIN d \cup {Head(ks)} |-> IF k = Head(ks) THEN Head(vs) ELSE d[k]]

(* dict(zip(keys, values)): pairs are inserted in order, a repeated key is
   overwritten *)
RECURSIVE DictZip(_, _)
DictZip(ks, vs) ==
    IF ks = <<>> THEN <<>>
    ELSE LET n == Len(ks)
             d == DictZip(SubSeq(ks, 1, n - 1), SubSeq(vs, 1, n - 1))
         IN  [k \in DOMAIN d \cup {ks[n]} |-> IF k = ks[n] THEN vs[n] ELSE d[k]]

AttributeMap(hdr, rs, value_col) ==
    IF ~({fuel, value_col} \subseteq Range(hdr))
    THEN Error("FormatError")
    ELSE [kind |-> "map", map |-> DictZip(Column(hdr, rs, fuel), Column(hdr, rs, value_col))]

load_storage(hdr, rs) == AttributeMap(hdr, rs, capacity)

load_efficiency(hdr, rs) == AttributeMap(hdr, rs, efficiency)

load_plant_capacity(hdr, rs) == AttributeMap(hdr, rs, capacity)

----------------------------------------------------------------------------
(* The calls the model explores *)

month == <<"m","o","n","t","h">>
utc_timestamp == <<"u","t","c","_","t","i","m","e","s","t","a","m","p">>
DK_1 == <<"D","K","_","1">>
DK_2 == <<"D","K","_","2">>

(* price files: names to be trimmed and lower-cased, an extra column,
   a file without oil, a file with the date column only *)
PriceHeaders ==
    { <<month, <<" ","C","o","a","l">>, <<"G","A","S">>, <<"o","i","l"," ">> >>,
      <<month, coal, gas, oil, <<"L","i","g","n","i","t","e">> >>,
      <<month, coal, gas>>,
      <<month>> }

(* demand files: the zone as second or as first zone column, written in
   another case and with a trailing blank; a file with the timestamp only *)
DemandHeaders ==
    { <<utc_timestamp, DK_1, DK_2>>,
      <<utc_timestamp, <<"D","k","_","2"," ">>, DK_1>>,
      <<utc_timestamp>> }

Zones == { <<"d","k","_","2">>, <<"S","E","_","4">> }

(* supply_factor: the default 0.5, and 3 *)
SupplyFactors == { <<1, 2>>, <<3, 1>> }

(* timestamps of the rows: 2024-01-15T05:00, 2024-01-31T23:00,
   2024-02-01T00:00, 2024-03-01T00:00 *)
RowTimes == { At(1, 15, 5), At(1, 31, 23), At(2, 1, 0), At(3, 1, 0) }

(* start: omitted, 2024-01-31, 2024-03-10 *)
StartArgs == { None, <<At(1, 31, 0)>>, <<At(3, 10, 0)>> }

(* end: omitted, 2024-01-15, 2024-01-31, 2024-03-10 *)
EndArgs == { None, <<At(1, 15, 0)>>, <<At(1, 31, 0)>>, <<At(3, 10, 0)>> }

(* the text of the cells of a row, by the row's position in the file:
   numbers, text that is no number, empty cells *)
CellRows ==
    << << <<"1","0">>, <<"2","0">>, <<"3","0">>, <<"4","0">> >>,
       << <<"x">>, <<"4">>, <<>>, <<"6">> >>,
       << <<"7">>, <<"n","/","a">>, <<"3","0">>, <<"1">> >> >>

CellsOfRow(i, width) == SubSeq(CellRows[((i - 1) % Len(CellRows)) + 1], 1, width)

(* the files: rows in any order of time, repeated timestamps included *)
TimeSeqs == UNION { [1..n -> RowTimes] : n \in 1..MaxRows }

SeriesRows(times, hdr) ==
    [i \in DOMAIN times |-> [ts |-> times[i], cells |-> CellsOfRow(i, Len(hdr) - 1)]]

InitPrices ==
    /\ loader = "load_prices"
    /\ header \in PriceHeaders
    /\ \E times \in TimeSeqs : rows = SeriesRows(times, header)
    /\ start \in StartArgs
    /\ end \in EndArgs
    /\ resample_method \in Rules
    /\ zone = DK_2
    /\ supply_factor = <<1, 2>>
    /\ result = Pending

InitDemand ==
    /\ loader = "load_demand"
    /\ header \in DemandHeaders
    /\ \E times \in TimeSeqs : rows = SeriesRows(times, header)
    /\ start \in StartArgs
    /\ end \in EndArgs
    /\ resample_method \in Rules
    /\ zone \in Zones
    /\ supply_factor \in SupplyFactors
    /\ result = Pending

Init == InitPrices \/ InitDemand

Inputs == <<loader, header, rows, start, end, resample_method, zone, supply_factor>>

LoadPrices ==
    /\ loader = "load_prices"
    /\ result = Pending
    /\ result' = load_prices(header, rows, start, end, resample_method)
    /\ UNCHANGED Inputs

LoadDemand ==
    /\ loader = "load_demand"
    /\ result = Pending
    /\ result' = load_demand(header, rows, start, end, resample_method, zone, supply_factor)
    /\ UNCHANGED Inputs

Next == LoadPrices \/ LoadDemand

Spec == Init /\ [][Next]_vars

----------------------------------------------------------------------------
(* The attribute-map calls *)

AttrHeaders ==
    { <<fuel, capacity>>,
      <<capacity, <<"n","o","t","e">>, fuel>>,
      <<fuel, efficiency>>,
      <<fuel, capacity, efficiency>>,
      <<<<"F","u","e","l">>, capacity, efficiency>>,
      <<fuel>> }

FuelNames == { coal, gas }

AttrValues == { <<"1","0">>, <<"1","5">>, <<"2","0">> }

AttrRows(fuels, values, hdr) ==
    [i \in DOMAIN fuels |->
        [cells |-> [j \in DOMAIN hdr |->
            IF hdr[j] = fuel THEN fuels[i]
            ELSE IF hdr[j] = capacity THEN values[i]
            ELSE IF hdr[j] = efficiency THEN <<"0">> \o values[i]
            ELSE <<"x">>]]]

InitAttr ==
    /\ loader \in {"load_storage", "load_efficiency", "load_plant_capacity"}
    /\ header \in AttrHeaders
    /\ \E n \in 1..MaxRows :
         \E fuels \in [1..n -> FuelNames], values \in [1..n -> AttrValues] :
            rows = AttrRows(fuels, values, header)
    /\ start = None
    /\ end = None
    /\ resample_method = "ME"
    /\ zone = DK_2
    /\ supply_factor = <<1, 2>>
    /\ result = Pending

LoadStorage ==
    /\ loader = "load_storage"
    /\ result = Pending
    /\ result' = load_storage(header, rows)
    /\ UNCHANGED Inputs

LoadEfficiency ==
    /\ loader = "load_efficiency"
    /\ result = Pending
    /\ result' = load_efficiency(header, rows)
    /\ UNCHANGED Inputs

LoadPlantCapacity ==
    /\ loader = "load_plant_capacity"
    /\ result = Pending
    /\ result' = load_plant_capacity(header, rows)
    /\ UNCHANGED Inputs

NextAttr == LoadStorage \/ LoadEfficiency \/ LoadPlantCapacity

SpecAttr == InitAttr /\ [][NextAttr]_vars

----------------------------------------------------------------------------
(* Vocabulary of the properties, stated on the call and its outcome *)

SeriesCall == loader \in {"load_prices", "load_demand"}

Returned == result.kind = "table"

Finished == result # Pending

RowTs == {rows[i].ts : i \in DOMAIN rows}

Ascending == \A i \in 1..(Len(rows) - 1) : rows[i].ts <= rows[i + 1].ts

TableTimes == {result.table[k].ts : k \in DOMAIN result.table}

(* the name of a column matches a wanted name after trimming and lower-casing *)
Matches(col, name) == Lower(Strip(col)) = Lower(Strip(name))

PriceSchemaOk ==
    /\ Len(header) >= 2
    /\ \A r \in {coal, gas, oil} : \E j \in 2..Len(header) : Matches(header[j], r)

DemandSchemaOk ==
    /\ Len(header) >= 2
    /\ \E j \in 2..Len(header) : Matches(header[j], zone)

StructurallyValid ==
    \/ loader = "load_prices" /\ PriceSchemaOk
    \/ loader = "load_demand" /\ DemandSchemaOk

(* resolved start and end as the specification defines them *)
ResolvedStart == IF start = None THEN SetMin(RowTs) ELSE start[1]

ResolvedEnd == IF end = None THEN SetMax(RowTs) ELSE ExtendEnd(end[1])

(* the last day, at 23:00, of the calendar month that contains t *)
EndOfMonthOf(t) == MonthEndDay(MonthOf(t)) * 24 + 23

InWindow(lo, hi) == {i \in DOMAIN rows : lo <= rows[i].ts /\ rows[i].ts <= hi}

(* the bucket timestamps of a table made of exactly the rows in [lo, hi] *)
LabelsOfWindow(lo, hi) ==
    LET W == {rows[i].ts : i \in InWindow(lo, hi)}
    IN  IF W = {} THEN {}
        ELSE Range(LabelsFrom(resample_method,
                              LabelOf(resample_method, SetMin(W)),
                              LabelOf(resample_method, SetMax(W))))

(* the rows of [lo, hi] in bucket b whose cell in column j is a number *)
Contributing(lo, hi, b, j) ==
    {i \in InWindow(lo, hi) :
        /\ LabelOf(resample_method, rows[i].ts) = b
        /\ ToNumeric(rows[i].cells[j]) # NaN}

RECURSIVE SumCells(_, _)
SumCells(I, j) ==
    IF I = {} THEN 0
    ELSE LET i == CHOOSE x \in I : TRUE
         IN  ToNumeric(rows[i].cells[j])[1] + SumCells(I \ {i}, j)

----------------------------------------------------------------------------
(* C1: when `end` is given, the window ends at the last day, 23:00, of the
   calendar month containing `end`: the returned buckets are those of
   exactly the rows between the resolved start and that instant, also when
   `end` is itself the last day of its month. Stated for files in ascending
   order of time. *)
C1_WindowEndsWithMonthOfEnd ==
    (SeriesCall /\ Returned /\ end # None /\ Ascending)
        => TableTimes = LabelsOfWindow(ResolvedStart, EndOfMonthOf(end[1]))

(* C2: on a structurally valid file, a call with `start` later than `end`
   fails with a RangeError, whatever the months of the two. Stated for
   files in ascending order of time. *)
C2_StartAfterEndIsRangeError ==
    (SeriesCall /\ Finished /\ StructurallyValid /\ Ascending
       /\ start # None /\ end # None /\ start[1] > end[1])
        => result.kind = "RangeError"

(* C3: on a structurally valid file, a window with no row in it (and whose
   start is not later than its end) fails with an EmptyResultError, whether
   both bounds are given or only one. Stated for files in ascending order of
   time. *)
C3_EmptyWindowIsEmptyResultError ==
    (SeriesCall /\ Finished /\ StructurallyValid /\ Ascending
       /\ ~(start # None /\ end # None /\ start[1] > end[1])
       /\ InWindow(ResolvedStart, ResolvedEnd) = {})
        => result.kind = "EmptyResultError"

----------------------------------------------------------------------------
----------------------------------------------------------------------------
(* C5: every value returned by load_prices is the arithmetic mean of exactly
   the rows inside the window and inside the bucket whose cell is a number;
   a bucket without such a row gives a missing value. *)
ExpectedMean(b, j) ==
    LET I == Contributing(ResolvedStart, ResolvedEnd, b, j)
    IN  IF I = {} THEN NaN ELSE Frac(SumCells(I, j), Cardinality(I))

C5_ValuesAreMeansOfWindowRows ==
    (loader = "load_prices" /\ Returned)
        => \A k \in DOMAIN result.table : \A j \in DOMAIN result.columns :
              result.table[k].vals[j] = ExpectedMean(result.table[k].ts, j)

(* C5 restricted to files in ascending order of time *)
C5_ValuesAreMeansOfWindowRowsAscending ==
    Ascending => C5_ValuesAreMeansOfWindowRows

----------------------------------------------------------------------------
(* C6: every value returned by load_demand is supply_factor times the sum of
   the selected zone's numbers inside the window and inside the bucket. *)
ZoneColumn == CHOOSE j \in 2..Len(header) : header[j] = result.columns[1]

ExpectedDemand(b) ==
    Frac(SumCells(Contributing(ResolvedStart, ResolvedEnd, b, ZoneColumn - 1),
                  ZoneColumn - 1) * supply_factor[1],
         supply_factor[2])

C6_ValuesAreScaledSumsOfWindowRows ==
    (loader = "load_demand" /\ Returned)
        => \A k \in DOMAIN result.table :
              result.table[k].vals = <<ExpectedDemand(result.table[k].ts)>>

(* C6 restricted to files in ascending order of time *)
C6_ValuesAreScaledSumsOfWindowRowsAscending ==
    Ascending => C6_ValuesAreScaledSumsOfWindowRows

----------------------------------------------------------------------------
(* C7: load_demand finds the zone column whatever its case and surrounding
   blanks: with a matching column the call is no FormatError and a returned
   table has one column, named as the matching column is written in the
   file; without one the call is a FormatError. *)
MatchingColumns == {header[j] : j \in {i \in 2..Len(header) : Matches(header[i], zone)}}

C7_ZoneMatchedCaseInsensitively ==
    (loader = "load_demand" /\ Finished)
        => IF MatchingColumns # {}
           THEN /\ result.kind # "FormatError"
                /\ Returned =>
                      /\ Len(result.columns) = 1
                      /\ result.columns[1] \in MatchingColumns
                      /\ \A k \in DOMAIN result.table : Len(result.table[k].vals) = 1
           ELSE result.kind = "FormatError"

(* a table whose column is written otherwise than the requested zone *)
C7_Witness ==
    /\ loader = "load_demand" /\ Returned
    /\ result.columns[1] # zone
    /\ result.columns[1] # Lower(Strip(result.columns[1]))

----------------------------------------------------------------------------
(* C8: an attribute-map loader fails with a FormatError when the fuel column
   or the value column is absent; otherwise it returns one key per distinct
   fuel name, mapped to the value of the last row carrying that name. *)
ValueColumn == IF loader = "load_efficiency" THEN efficiency ELSE capacity

HasColumn(name) == \E j \in DOMAIN header : header[j] = name

CellOf(i, name) == rows[i].cells[CHOOSE j \in DOMAIN header : header[j] = name]

LastRowOf(k) == SetMax({i \in DOMAIN rows : CellOf(i, fuel) = k})

C8_AttributeMapLastValueWins ==
    (loader \in {"load_storage", "load_efficiency", "load_plant_capacity"} /\ Finished)
        => IF HasColumn(fuel) /\ HasColumn(ValueColumn)
           THEN /\ result.kind = "map"
                /\ DOMAIN result.map = {CellOf(i, fuel) : i \in DOMAIN rows}
                /\ \A k \in DOMAIN result.map :
                      result.map[k] = CellOf(LastRowOf(k), ValueColumn)
           ELSE result.kind = "FormatError"

(* a map of a file in which a fuel name is repeated with another value *)
C8_Witness ==
    /\ loader \in {"load_storage", "load_efficiency", "load_plant_capacity"}
    /\ result.kind = "map"
    /\ \E i, k \in DOMAIN rows :
          /\ i < k
          /\ CellOf(i, fuel) = CellOf(k, fuel)
          /\ CellOf(i, ValueColumn) # CellOf(k, ValueColumn)
          /\ Len(header) > 2

----------------------------------------------------------------------------
(* C9: load_prices fails with a FormatError whenever the file has fewer than
   two columns or lacks coal, gas or oil after trimming and lower-casing,
   whatever start, end and the cells are; with the three present it is no
   FormatError and a returned table has every column of the file under its
   trimmed, lower-cased name. *)
C9_PriceSchemaCheckedFirst ==
    (loader = "load_prices" /\ Finished)
        => IF PriceSchemaOk
           THEN /\ result.kind # "FormatError"
                /\ Returned =>
                      /\ result.columns = [j \in 1..(Len(header) - 1) |-> Lower(Strip(header[j + 1]))]
                      /\ \A k \in DOMAIN result.table :
                            Len(result.table[k].vals) = Len(header) - 1
           ELSE result.kind = "FormatError"

(* a file without oil, called with start later than end: a FormatError *)
C9_Witness ==
    /\ loader = "load_prices" /\ result.kind = "FormatError"
    /\ Len(header) >= 2 /\ ~PriceSchemaOk
    /\ start # None /\ end # None /\ start[1] > ExtendEnd(end[1])

----------------------------------------------------------------------------
(* C10: the bucket timestamps of every returned table are strictly
   ascending, for any order and any repetition of the input timestamps. *)
C10_BucketTimesStrictlyAscending ==
    (SeriesCall /\ Returned)
        => \A k \in 1..(Len(result.table) - 1) :
              result.table[k].ts < result.table[k + 1].ts

(* a table of several buckets, of a file that is not in ascending order and
   whose first two rows carry the same timestamp *)
C10_Witness ==
    /\ SeriesCall /\ Returned /\ ~Ascending
    /\ Len(rows) >= 2 /\ rows[1].ts = rows[2].ts
    /\ Len(result.table) >= 2

====
